---- MODULE Spec2Model ----
(***************************************************************************)
(* Model of the Tenerife tourist assistant: the weather tool               *)
(* (src/src/weather_service.py), the vector store                          *)
(* (src/src/vector_store.py) and the RAG chain (src/src/rag_chain.py).     *)
(*                                                                         *)
(* Python strings are sequences of one-character strings where the code    *)
(* looks inside them (dates), and sequences of tokens elsewhere.           *)
(***************************************************************************)
EXTENDS Integers, Sequences, FiniteSets, TLC

VARIABLES
    \* ---- RAGChain (rag_chain.py) ----
    max_history,   \* RAGChain.max_history
    weather_service, \* RAGChain.weather_service: "None" or "WeatherService"
    tools,         \* RAGChain.tools (a sequence of tool schemas)
    history,       \* RAGChain.history
    \* ---- VectorStore (vector_store.py) ----
    vectorstore,   \* VectorStore.vectorstore: "None" or "Chroma"
    chunks,        \* VectorStore.chunks
    disk,          \* the collection persisted under persist_directory
    \* ---- what the last call did (observed by its caller and its collaborators) ----
    last,          \* the last operation: its name, its result or exception,
                   \* the model calls it submitted and the tools it executed
    turns,         \* the successful turns since construction or the last clear
    cleared,       \* clear_history was called and no query has reached the model since
    lastBuild,     \* pages kind of the last build_from_documents that returned
    loaded,        \* a load_existing has returned True
    \* ---- one call of the weather service (weather_service.py) ----
    w_pc,          \* "call" before the call, "done" after it
    w_simulated,   \* WeatherService.simulated
    w_args,        \* the argument payload of the tool call
    w_now,         \* what datetime.now() returns during the call
    w_out,         \* what the call returned or raised
    \* ---- the Streamlit application (app.py) ----
    cache_resource, \* what st.cache_resource holds for init_rag_chain: 0 before the
                   \* first call, then the RAGChain object the call returned
    rags,          \* the RAGChain objects init_rag_chain created: the history of each
    session_state, \* st.session_state of each UI session: its rag and its messages
    \* ---- the objects behind the history (Python lists and dicts) ----
    objects,       \* the message dicts ever created, by address
    history_ids,   \* the list RAGChain.history: the addresses of its messages
    returned       \* the list get_history returned to its caller

vars == <<max_history, weather_service, tools, history, vectorstore, chunks, disk,
          last, turns, cleared, lastBuild, loaded, w_pc, w_simulated, w_args, w_now, w_out,
          cache_resource, rags, session_state, objects, history_ids, returned>>

chainVars == <<max_history, weather_service, tools, history, vectorstore, chunks,
               disk, last, turns, cleared, lastBuild, loaded>>
weatherVars == <<w_pc, w_simulated, w_args, w_now, w_out>>
appVars == <<cache_resource, rags, session_state>>
objVars == <<objects, history_ids, returned>>

Min(a, b) == IF a < b THEN a ELSE b

(***************************************************************************)
(* Characters and dates                                                    *)
(***************************************************************************)
DigitVal == ("0" :> 0) @@ ("1" :> 1) @@ ("2" :> 2) @@ ("3" :> 3) @@ ("4" :> 4)
            @@ ("5" :> 5) @@ ("6" :> 6) @@ ("7" :> 7) @@ ("8" :> 8) @@ ("9" :> 9)
Digits == DOMAIN DigitVal
NonZeroDigits == Digits \ {"0"}
DigitChar == [n \in 0..9 |-> CHOOSE c \in Digits : DigitVal[c] = n]

\* s[i], or "" past the end of the string
At(s, i) == IF i >= 1 /\ i <= Len(s) THEN s[i] ELSE ""
Val(s, i) == DigitVal[s[i]]

IsLeap(y) == (y % 4 = 0) /\ ((y % 100 # 0) \/ (y % 400 = 0))
DaysInMonth(y, m) ==
    IF m = 2 THEN (IF IsLeap(y) THEN 29 ELSE 28)
    ELSE IF m \in {4, 6, 9, 11} THEN 30 ELSE 31

RECURSIVE DaysBeforeMonth(_, _)
DaysBeforeMonth(y, m) ==
    IF m <= 1 THEN 0 ELSE DaysBeforeMonth(y, m - 1) + DaysInMonth(y, m - 1)

\* proleptic Gregorian day number, as datetime computes differences of dates
toordinal(y, m, d) ==
    LET p == y - 1
    IN  p * 365 + (p \div 4) - (p \div 100) + (p \div 400)
        + DaysBeforeMonth(y, m) + d

(***************************************************************************)
(* datetime.strptime(v, "%Y-%m-%d").  The format compiles to the regular   *)
(* expression                                                              *)
(*   (\d\d\d\d)-(1[0-2]|0[1-9]|[1-9])-(3[0-1]|[1-2]\d|0[1-9]|[1-9]| [1-9]) *)
(* which is matched at the start of the string; text left after the match, *)
(* or a day the month does not have, is a ValueError.                      *)
(***************************************************************************)
\* length the %d directive matches at position j (0: no match); alternatives in order
DayLen(s, j) ==
    IF At(s, j) = "3" /\ At(s, j + 1) \in {"0", "1"} THEN 2
    ELSE IF At(s, j) \in {"1", "2"} /\ At(s, j + 1) \in Digits THEN 2
    ELSE IF At(s, j) = "0" /\ At(s, j + 1) \in NonZeroDigits THEN 2
    ELSE IF At(s, j) \in NonZeroDigits THEN 1
    ELSE IF At(s, j) = " " /\ At(s, j + 1) \in NonZeroDigits THEN 2
    ELSE 0

DayValue(s, j) ==
    IF DayLen(s, j) = 1 THEN Val(s, j)
    ELSE IF At(s, j) = " " THEN Val(s, j + 1)
    ELSE 10 * Val(s, j) + Val(s, j + 1)

\* the rest of the pattern after %m: "-" and a day
RestMatches(s, j) == At(s, j) = "-" /\ DayLen(s, j + 1) > 0

\* length the %m directive matches at position i so that the rest matches too
MonthLen(s, i) ==
    IF /\ \/ At(s, i) = "1" /\ At(s, i + 1) \in {"0", "1", "2"}
          \/ At(s, i) = "0" /\ At(s, i + 1) \in NonZeroDigits
       /\ RestMatches(s, i + 2) THEN 2
    ELSE IF At(s, i) \in NonZeroDigits /\ RestMatches(s, i + 1) THEN 1
    ELSE 0

MonthValue(s, i) ==
    IF MonthLen(s, i) = 1 THEN Val(s, i) ELSE 10 * Val(s, i) + Val(s, i + 1)

NoDate == [ok |-> FALSE, year |-> 0, month |-> 0, day |-> 0]

strptime(s) ==
    IF /\ \A i \in 1..4 : At(s, i) \in Digits
       /\ At(s, 5) = "-"
       /\ MonthLen(s, 6) > 0
    THEN LET ml == MonthLen(s, 6)
             dl == DayLen(s, 6 + ml + 1)
             y  == 1000 * Val(s, 1) + 100 * Val(s, 2) + 10 * Val(s, 3) + Val(s, 4)
             m  == MonthValue(s, 6)
             d  == DayValue(s, 6 + ml + 1)
         IN  IF /\ 6 + ml + dl = Len(s)          \* no unconverted data remains
                /\ y >= 1
                /\ d <= DaysInMonth(y, m)
             THEN [ok |-> TRUE, year |-> y, month |-> m, day |-> d]
             ELSE NoDate
    ELSE NoDate

(***************************************************************************)
(* JSON values, as json.loads returns them to parse_tool_call              *)
(***************************************************************************)
JAbsent == [type |-> "absent", s |-> <<>>]      \* the key is not in the object
JNull == [type |-> "null", s |-> <<>>]          \* None
JNumber == [type |-> "number", s |-> <<>>]      \* an int or a float
JStr(s) == [type |-> "str", s |-> s]

\* dict.get(key, default)
dict_get(obj, key, default) ==
    IF obj[key].type = "absent" THEN default ELSE obj[key]

ErrorPayload(message) == [error |-> TRUE, message |-> message]

Returned(value) == [raised |-> "none", value |-> value]
Raised(exception) == [raised |-> exception, value |-> [none |-> TRUE]]

(***************************************************************************)
(* WeatherRequest: pydantic checks that date and location are strings and  *)
(* runs validate_date_format on date; each failure is one line of the      *)
(* ValidationError (a ValueError).                                         *)
(***************************************************************************)
validate_date_format(v) == strptime(v).ok

WeatherRequest(date, location) ==
    LET dateErrors ==
            IF date.type # "str" THEN <<"date: Input should be a valid string">>
            ELSE IF ~validate_date_format(date.s)
                 THEN <<"date: Formato de fecha inválido. Usar YYYY-MM-DD">>
                 ELSE <<>>
        locationErrors ==
            IF location.type # "str"
            THEN <<"location: Input should be a valid string">> ELSE <<>>
    IN  [ok |-> dateErrors \o locationErrors = <<>>,
         errors |-> dateErrors \o locationErrors,
         date |-> date.s, location |-> location.s]

(***************************************************************************)
(* The simulator.  rnd holds the values the random module returns to one   *)
(* call: random.randint(a, b) is any integer of a..b, random.choices any   *)
(* element of positive weight.                                             *)
(***************************************************************************)
randint(a, b) == a..b

CONDITIONS == << <<"Soleado", 40>>, <<"Parcialmente nublado", 30>>,
                 <<"Nublado", 15>>, <<"Lluvia ligera", 10>>, <<"Ventoso", 5>> >>

RECOMMENDATIONS ==
    ("Soleado" :> "Perfecto para la playa. No olvides protector solar y agua.")
    @@ ("Parcialmente nublado"
          :> "Buen día para turismo. Lleva gafas de sol por si acaso.")
    @@ ("Nublado"
          :> "Ideal para visitar museos o el casco histórico de La Laguna.")
    @@ ("Lluvia ligera"
          :> "Lleva un paraguas. Buen día para visitar centros comerciales o restaurantes.")
    @@ ("Ventoso"
          :> "Cuidado en zonas de acantilados. Evita actividades acuáticas.")

choices(weighted) == {weighted[i][1] : i \in {j \in DOMAIN weighted : weighted[j][2] > 0}}

\* the temperature ranges with December under the fall months
TempHighRange_fallDecember(month) ==
    IF month \in {1, 2} THEN randint(18, 22)
    ELSE IF month \in {3, 4, 5} THEN randint(20, 24)
    ELSE IF month \in {6, 7, 8} THEN randint(25, 30)
    ELSE randint(22, 26)

TempHighRange(month) ==
    IF month \in {12, 1, 2} THEN randint(18, 22)
    ELSE IF month \in {3, 4, 5} THEN randint(20, 24)
    ELSE IF month \in {6, 7, 8} THEN randint(25, 30)
    ELSE randint(22, 26)

\* the low temperatures with a winter range that reaches the winter highs
TempLowRange_winterOverlap(month) ==
    IF month \in {12, 1, 2} THEN randint(14, 18)
    ELSE IF month \in {3, 4, 5} THEN randint(15, 18)
    ELSE IF month \in {6, 7, 8} THEN randint(19, 23)
    ELSE randint(17, 20)

TempLowRange(month) ==
    IF month \in {12, 1, 2} THEN randint(14, 17)
    ELSE IF month \in {3, 4, 5} THEN randint(15, 18)
    ELSE IF month \in {6, 7, 8} THEN randint(19, 23)
    ELSE randint(17, 20)

HumidityRange == randint(50, 75)
WindSpeedRange == randint(5, 25)

\* the draws one call of the simulator can get, humidity and wind speed among H and W
Draws(month, H, W) ==
    [temp_high : TempHighRange(month), temp_low : TempLowRange(month),
     condition : choices(CONDITIONS), humidity : H, wind_speed : W]

_get_simulated_weather(request, rnd) ==
    [date |-> request.date,
     location |-> request.location,
     temperature_high |-> rnd.temp_high,
     temperature_low |-> rnd.temp_low,
     condition |-> rnd.condition,
     humidity |-> rnd.humidity,
     wind_speed |-> rnd.wind_speed,
     recommendation |-> RECOMMENDATIONS[rnd.condition],
     simulated |-> TRUE]

(***************************************************************************)
(* get_weather.  now is what datetime.now() returns: a calendar date and   *)
(* the time of day, in ticks of which a day has TicksPerDay.               *)
(***************************************************************************)
TicksPerDay == 2

\* (date_obj - today).days: the difference in whole days, rounded down
days_diff(d, now) ==
    ((toordinal(d.year, d.month, d.day) - toordinal(now.year, now.month, now.day))
        * TicksPerDay - now.tick) \div TicksPerDay

TooFarMessage == <<"Solo puedo proporcionar pronósticos hasta 7 días en el futuro.">>
PastMessage == <<"No puedo proporcionar el tiempo para fechas pasadas.">>
ServiceErrorMessage == <<"Error al obtener el pronóstico del tiempo.">>
ParseErrorMessage == <<"Error al procesar la solicitud del tiempo.">>

\* an exception and its message
RaisedWith(exception, message) == [raised |-> exception, value |-> message]

\* the try block of get_weather: what it returns or raises
get_weather_try(date, location, simulated, now, rnd) ==
    LET request == WeatherRequest(date, location)
    IN  IF ~request.ok
        THEN RaisedWith("ValueError", request.errors)    \* pydantic's ValidationError
        ELSE LET date_obj == strptime(date.s)
             IN  IF days_diff(date_obj, now) > 7
                 THEN Returned(ErrorPayload(TooFarMessage))
                 ELSE IF days_diff(date_obj, now) < -1
                 THEN Returned(ErrorPayload(PastMessage))
                 ELSE IF simulated
                 THEN Returned(_get_simulated_weather(request, rnd))   \* model_dump()
                 ELSE Raised("NotImplementedError")      \* _get_real_weather

\* the except clauses of get_weather, on what the try block did
get_weather_except(r) ==
    IF r.raised = "none" THEN r
    ELSE IF r.raised = "ValueError"
    THEN Returned(ErrorPayload(r.value))                 \* except ValueError
    ELSE Returned(ErrorPayload(ServiceErrorMessage))     \* except Exception

\* the except clauses without "except Exception"
get_weather_except_ValueError(r) ==
    IF r.raised = "ValueError" THEN Returned(ErrorPayload(r.value)) ELSE r

\* get_weather without its "except Exception" clause
get_weather_no_catchall(date, location, simulated, now, rnd) ==
    get_weather_except_ValueError(get_weather_try(date, location, simulated, now, rnd))

get_weather(date, location, simulated, now, rnd) ==
    get_weather_except(get_weather_try(date, location, simulated, now, rnd))

DefaultLocation == JStr(<<"Tenerife">>)

\* parse_tool_call on the arguments string of a tool call; json.loads has
\* turned it into args, or failed (args.json = "invalid")
parse_tool_call(args, simulated, now, rnd) ==
    IF args.json = "invalid"
    THEN Returned(ErrorPayload(ParseErrorMessage))       \* except JSONDecodeError
    ELSE IF args.json # "object"
    THEN Raised("AttributeError")                        \* arguments.get
    ELSE get_weather(dict_get(args, "date", JNull),
                     dict_get(args, "location", DefaultLocation),
                     simulated, now, rnd)

(***************************************************************************)
(* Inputs of the weather service: the clocks, the date strings around each *)
(* clock's day in several spellings, and the argument payloads.            *)
(***************************************************************************)
Reach == 3         \* requested dates go from Reach days before the window to Reach after it

Todays == { <<2025, 6, 5>>, <<2025, 12, 30>> }
\* further days the service is called on, each asked for its own forecast and
\* the next day's: the last day of each season, and a day of April, of July and
\* of October, so that every month of the year has a forecast
SeasonDays ==
    { <<2025, 2, 28>>, <<2025, 4, 15>>, <<2025, 5, 31>>, <<2025, 7, 15>>,
      <<2025, 8, 31>>, <<2025, 10, 15>>, <<2025, 11, 30>> }

NextDay(t) ==
    IF t[3] < DaysInMonth(t[1], t[2]) THEN <<t[1], t[2], t[3] + 1>>
    ELSE IF t[2] < 12 THEN <<t[1], t[2] + 1, 1>>
    ELSE <<t[1] + 1, 1, 1>>

PrevDay(t) ==
    IF t[3] > 1 THEN <<t[1], t[2], t[3] - 1>>
    ELSE IF t[2] > 1 THEN <<t[1], t[2] - 1, DaysInMonth(t[1], t[2] - 1)>>
    ELSE <<t[1] - 1, 12, 31>>

RECURSIVE DateShift(_, _)
DateShift(t, k) ==
    IF k = 0 THEN t
    ELSE IF k > 0 THEN DateShift(NextDay(t), k - 1)
    ELSE DateShift(PrevDay(t), k + 1)

TwoDigits(n) == <<DigitChar[n \div 10], DigitChar[n % 10]>>
Unpadded(n) == IF n < 10 THEN <<DigitChar[n]>> ELSE TwoDigits(n)
FourDigits(n) == TwoDigits(n \div 100) \o TwoDigits(n % 100)

\* "2025-06-05", "2025-6-5", "2025-06- 5" (the last for days below 10 only)
Iso(t) == FourDigits(t[1]) \o <<"-">> \o TwoDigits(t[2]) \o <<"-">> \o TwoDigits(t[3])
Short(t) == FourDigits(t[1]) \o <<"-">> \o Unpadded(t[2]) \o <<"-">> \o Unpadded(t[3])
Spaced(t) ==
    FourDigits(t[1]) \o <<"-">> \o TwoDigits(t[2]) \o <<"-">>
        \o (IF t[3] < 10 THEN <<" ", DigitChar[t[3]]>> ELSE TwoDigits(t[3]))

RequestedDays ==
    {DateShift(t, k) : t \in Todays, k \in (0 - 1 - Reach)..(7 + Reach)}
        \cup {DateShift(t, k) : t \in SeasonDays, k \in 0..1}
\* the days also requested in the other spellings
RespelledDays == {DateShift(t, k) : t \in Todays, k \in {-1, 0, 8}}

OtherStrings ==
    { <<>>,
      <<"t", "o", "m", "o", "r", "r", "o", "w">>,
      <<"1", "5", "/", "0", "6", "/", "2", "0", "2", "5">>,
      <<"0", "6", "-", "0", "5", "-", "2", "0", "2", "5">>,
      <<"2", "0", "2", "5", "0", "6", "0", "5">>,
      <<"2", "0", "2", "5", "-", "0", "6", "-", "3", "1">>,
      <<"2", "0", "2", "5", "-", "1", "3", "-", "0", "1">>,
      <<"2", "0", "2", "5", "-", "0", "6", "-", "0", "5", " ">>,
      <<"2", "0", "2", "5", "-", "0", "6", "-", "0", "5", "0">> }

DateStrings ==
    {Iso(t) : t \in RequestedDays} \cup {Short(t) : t \in RespelledDays}
        \cup {Spaced(t) : t \in RespelledDays} \cup OtherStrings

Clocks ==
    {[year |-> t[1], month |-> t[2], day |-> t[3], tick |-> k] :
        t \in Todays, k \in 0..(TicksPerDay - 1)}
        \cup {[year |-> t[1], month |-> t[2], day |-> t[3], tick |-> 0] :
                 t \in SeasonDays}

NotAnObject(kind) == [json |-> kind, date |-> JAbsent, location |-> JAbsent]
Object(date, location) == [json |-> "object", date |-> date, location |-> location]

DateValues == {JAbsent, JNull, JNumber} \cup {JStr(s) : s \in DateStrings}
LocationValues == {JAbsent, JNumber, JStr(<<"Puerto de la Cruz">>)}

ArgPayloads ==
    {NotAnObject(k) : k \in {"invalid", "array", "null", "number", "string"}}
        \cup {Object(d, JAbsent) : d \in DateValues}
        \cup {Object(d, l) : d \in {JAbsent, JNumber} \cup {JStr(Iso(t)) : t \in Todays},
                             l \in LocationValues}

\* the smallest and the largest element of a set of integers
Ends(S) == {x \in S : (\A y \in S : x <= y) \/ (\A y \in S : y <= x)}

\* the draws the random module can give a call: those of the month of the
\* date, humidity and wind speed among H and W; a call that does not get to the
\* simulator (the date does not parse or is out of range, the service is not
\* the simulated one) draws nothing
NoDraw == [temp_high |-> 0, temp_low |-> 0, condition |-> "Soleado",
           humidity |-> 0, wind_speed |-> 0]
DrawsFor(date, simulated, now, H, W) ==
    IF /\ simulated
       /\ date.type = "str" /\ strptime(date.s).ok
       /\ days_diff(strptime(date.s), now) \in -1..7
    THEN Draws(strptime(date.s).month, H, W)
    ELSE {NoDraw}

NoOutput == [op |-> "none", out |-> Raised("none")]

(***************************************************************************)
(* VectorStore (vector_store.py).  A page is split into its pieces, one    *)
(* chunk each; the collection persisted under persist_directory is the     *)
(* sequence of the documents added to it.                                  *)
(***************************************************************************)
MaxPages == 2      \* pages of a document
MaxDocs == 3       \* documents a collection holds before builds stop adding to it
MaxK == 2          \* the k of a search

Page(i) ==
    [page |-> ToString(i),
     pieces |-> IF i % 2 = 0 THEN <<"a", "b">> ELSE <<"a">>]

PagesUpTo(n) == [i \in 1..n |-> Page(i)]
PageCollections == {PagesUpTo(n) : n \in 0..MaxPages}

RECURSIVE split_documents(_)
split_documents(pages) ==
    IF pages = <<>> THEN <<>>
    ELSE LET p == Head(pages)
         IN  [i \in 1..Len(p.pieces) |->
                 [page |-> p.page, page_content |-> <<p.page, p.pieces[i]>>]]
             \o split_documents(Tail(pages))

NoDirectory == [exists |-> FALSE, docs |-> <<>>]

\* _clear_existing: the directory after it
_clear_existing(d) == IF d.exists THEN NoDirectory ELSE d

\* Chroma.__len__ is the number of documents of the collection, so the truth
\* value Python gives a Chroma handle is "the collection is not empty"
NotInitialized(vs, d) == vs = "None" \/ Len(d.docs) = 0

\* Chroma.similarity_search: the k most similar documents; the model ranks
\* the documents in the order they were added
similarity_search(d, query, k) == SubSeq(d.docs, 1, Min(k, Len(d.docs)))

NotInitializedError == "ValueError: Vector store not initialized"

\* search without the check of self.vectorstore
search_unguarded(vs, d, query, k) == Returned(similarity_search(d, query, k))

search(vs, d, query, k) ==
    IF NotInitialized(vs, d) THEN Raised(NotInitializedError)
    ELSE Returned(similarity_search(d, query, k))

search_with_scores(vs, d, query, k) ==
    IF NotInitialized(vs, d) THEN Raised(NotInitializedError)
    ELSE Returned([i \in 1..Min(k, Len(d.docs)) |-> <<d.docs[i], i>>])

NoValue == [none |-> TRUE]
\* the record of a call: what it was given, what it returned or raised, the
\* model calls it submitted, the tool calls it executed, and the history and
\* the cleared flag it found
Did(op, raised, result) ==
    [op |-> op, input |-> NoValue, raised |-> raised, result |-> result,
     calls |-> <<>>, executed |-> <<>>, before |-> <<>>, after_clear |-> FALSE]
NoCall == Did("none", "none", NoValue)

\* the store: the fields of the VectorStore and its persisted collection
Store == [vectorstore |-> vectorstore, chunks |-> chunks, disk |-> disk,
          lastBuild |-> lastBuild]
FreshStore == [vectorstore |-> "None", chunks |-> <<>>, disk |-> NoDirectory,
               lastBuild |-> "none"]

\* build_from_documents(pages, clear_existing) on the store st; backend_ok:
\* Chroma.from_documents (the embedding provider and the index backend) succeeds,
\* otherwise it raises and the assignment to self.vectorstore is not reached
AfterBuild(st, pages, clear_existing, backend_ok) ==
    LET cleared_disk == IF clear_existing THEN _clear_existing(st.disk) ELSE st.disk
        new_chunks == split_documents(pages)
    IN  IF backend_ok
        THEN [vectorstore |-> "Chroma",
              chunks |-> new_chunks,
              disk |-> [exists |-> TRUE, docs |-> cleared_disk.docs \o new_chunks],
              lastBuild |-> IF pages = <<>> THEN "empty" ELSE "pages"]
        ELSE [vectorstore |-> st.vectorstore,
              chunks |-> new_chunks,
              disk |-> cleared_disk,
              lastBuild |-> st.lastBuild]

build_from_documents(pages, clear_existing, backend_ok) ==
    \E after \in {AfterBuild(Store, pages, clear_existing, backend_ok)} :
        /\ Len(after.disk.docs) <= MaxDocs
        /\ vectorstore' = after.vectorstore
        /\ chunks' = after.chunks
        /\ disk' = after.disk
        /\ lastBuild' = after.lastBuild
        /\ last' = [(IF backend_ok
                     THEN Did("build_from_documents", "none", [n |-> Len(after.chunks)])
                     ELSE Did("build_from_documents", "BackendError", NoValue))
                        EXCEPT !.input = [pages |-> pages,
                                          clear_existing |-> clear_existing]]
        /\ UNCHANGED <<max_history, weather_service, tools, history, turns, cleared,
                       loaded>>

\* load_existing; backend_ok: the Chroma constructor succeeds
load_existing(backend_ok) ==
    /\ IF backend_ok
       THEN /\ vectorstore' = "Chroma"
            /\ disk' = [disk EXCEPT !.exists = TRUE]
            /\ loaded' = TRUE
            /\ last' = Did("load_existing", "none", [ok |-> TRUE])
       ELSE /\ UNCHANGED <<vectorstore, disk, loaded>>
            /\ last' = Did("load_existing", "none", [ok |-> FALSE])
    /\ UNCHANGED <<max_history, weather_service, tools, history, chunks, turns,
                   cleared, lastBuild>>

RECURSIVE Sum(_)
Sum(ns) == IF ns = <<>> THEN 0 ELSE Head(ns) + Sum(Tail(ns))
RECURSIVE Smallest(_)
Smallest(ns) == IF Len(ns) = 1 THEN ns[1] ELSE Min(ns[1], Smallest(Tail(ns)))
RECURSIVE Largest(_)
Largest(ns) ==
    IF Len(ns) = 1 THEN ns[1]
    ELSE IF ns[1] > Largest(Tail(ns)) THEN ns[1] ELSE Largest(Tail(ns))

\* get_chunk_stats on self.chunks
get_chunk_stats(cs) ==
    IF cs = <<>> THEN [num_chunks |-> 0]
    ELSE LET lengths == [i \in 1..Len(cs) |-> Len(cs[i].page_content)]
         IN  [num_chunks |-> Len(cs),
              avg_chunk_size |-> Sum(lengths) \div Len(lengths),
              min_chunk_size |-> Smallest(lengths),
              max_chunk_size |-> Largest(lengths)]

\* a caller's search or search_with_scores
Search(query, k, scores) ==
    /\ last' = LET r == IF scores THEN search_with_scores(vectorstore, disk, query, k)
                        ELSE search(vectorstore, disk, query, k)
               IN  Did(IF scores THEN "search_with_scores" ELSE "search",
                       r.raised, r.value)
    /\ UNCHANGED <<max_history, weather_service, tools, history, vectorstore, chunks,
                   disk, turns, cleared, lastBuild, loaded>>

(***************************************************************************)
(* RAGChain (rag_chain.py).  A text is a sequence of tokens; the content   *)
(* of a message is a text, None, or the JSON text of a tool result.        *)
(***************************************************************************)
MaxHistory == 2    \* largest max_history a chain is created with
MaxTurns == 2      \* successful queries between two clear_history calls
MaxToolCalls == 2  \* tool calls in one model response

Text(tokens) == [text |-> tokens]
PyNone == [none |-> TRUE]
json_dumps(payload) == [json |-> payload]

SYSTEM_PROMPT == <<"system_prompt.txt">>
WEATHER_TOOL_SCHEMA ==
    [type |-> "function",
     function |-> [name |-> "get_weather", required |-> <<"date">>]]

Max(a, b) == IF a > b THEN a ELSE b

\* the Python slice s[start:]
SliceFrom(s, start) ==
    LET from == IF start < 0 THEN Max(start + Len(s), 0) ELSE Min(start, Len(s))
    IN  SubSeq(s, from + 1, Len(s))

RECURSIVE Join(_, _)
Join(parts, separator) ==
    IF parts = <<>> THEN <<>>
    ELSE IF Len(parts) = 1 THEN parts[1]
    ELSE parts[1] \o separator \o Join(Tail(parts), separator)

_build_context(found) ==
    Join([i \in 1..Len(found) |->
             <<"[Fuente: página ", found[i].page, "]\n">> \o found[i].page_content],
         <<"\n\n---\n\n">>)

\* a trim that keeps one message more than max_history turns hold
_trim_history_odd(h, max) ==
    LET max_messages == max * 2 + 1
    IN  IF Len(h) > max_messages THEN SliceFrom(h, 0 - max_messages) ELSE h

_trim_history(h, max) ==
    LET max_messages == max * 2
    IN  IF Len(h) > max_messages THEN SliceFrom(h, 0 - max_messages) ELSE h

UnknownFunction(name) == [error |-> TRUE, message |-> <<"Función desconocida: ", name>>]

\* _handle_tool_call raising on an error payload instead of returning it
_handle_tool_call_strict(tool_call, service, now, rnd) ==
    IF tool_call.function.name = "get_weather" /\ service # "None"
    THEN LET r == parse_tool_call(tool_call.function.arguments, TRUE, now, rnd)
         IN  IF r.raised # "none" THEN r
             ELSE IF "error" \in DOMAIN r.value THEN Raised("ToolError")
             ELSE Returned(json_dumps(r.value))
    ELSE Returned(json_dumps(UnknownFunction(tool_call.function.name)))

\* _handle_tool_call without the check of the function's name
_handle_tool_call_any(tool_call, service, now, rnd) ==
    IF service # "None"
    THEN LET r == parse_tool_call(tool_call.function.arguments, TRUE, now, rnd)
         IN  IF r.raised # "none" THEN r ELSE Returned(json_dumps(r.value))
    ELSE Returned(json_dumps(UnknownFunction(tool_call.function.name)))

\* _handle_tool_call: the JSON text of the tool's result, or what the tool raised;
\* the application's weather service is the simulated one
_handle_tool_call(tool_call, service, now, rnd) ==
    IF tool_call.function.name = "get_weather" /\ service # "None"
    THEN LET r == parse_tool_call(tool_call.function.arguments, TRUE, now, rnd)
         IN  IF r.raised # "none" THEN r ELSE Returned(json_dumps(r.value))
    ELSE Returned(json_dumps(UnknownFunction(tool_call.function.name)))

SystemMessage == [role |-> "system", content |-> Text(SYSTEM_PROMPT)]
UserMessage(context, question) ==
    [role |-> "user",
     content |-> Text(<<"CONTEXTO:\n">> \o context \o <<"\n\nPREGUNTA: ">> \o question)]
AssistantToolCall(tool_call) ==
    [role |-> "assistant", content |-> PyNone,
     tool_calls |-> << [id |-> tool_call.id, type |-> "function",
                        function |-> [name |-> tool_call.function.name,
                                      arguments |-> tool_call.function.arguments]] >>]
ToolMessage(tool_call, tool_result) ==
    [role |-> "tool", tool_call_id |-> tool_call.id, content |-> tool_result]

\* step 3 with the history after the question
BuildMessages_historyLast(h, context, question) ==
    <<SystemMessage>> \o <<UserMessage(context, question)>> \o h

\* step 3 of query: the messages of the first model call
BuildMessages(h, context, question) ==
    <<SystemMessage>> \o h \o <<UserMessage(context, question)>>

\* step 5 storing the message sent to the model instead of the question
HistoryEntries_sent(question, user_message, answer) ==
    << user_message, [role |-> "assistant", content |-> answer] >>

\* step 5 of query: the two messages a turn adds to the history
HistoryEntries(question, user_message, answer) ==
    << [role |-> "user", content |-> Text(question)],
       [role |-> "assistant", content |-> answer] >>

Sources(found) ==
    [i \in 1..Len(found) |->
        [page |-> found[i].page, preview |-> found[i].page_content]]

\* a model call that always submits the weather tool schema
Completion_withSchema(messages, with_tools) ==
    [messages |-> messages, tools |-> <<WEATHER_TOOL_SCHEMA>>]

Completion(messages, with_tools) == [messages |-> messages, tools |-> with_tools]

\* what a model call raises when the provider fails
ModelError == "APIError"

\* the model call that raised has no response
NoResponse == [content |-> PyNone, tool_calls |-> <<>>, none |-> TRUE]

\* a query that stores the user message before it calls the model
Aborted_stored(h, exception, calls, executed) ==
    [raised |-> exception, result |-> NoValue, calls |-> calls,
     executed |-> executed,
     history |-> IF calls = <<>> THEN h
                 ELSE Append(h, calls[1].messages[Len(calls[1].messages)])]

Aborted(h, exception, calls, executed) ==
    [raised |-> exception, result |-> NoValue, calls |-> calls,
     executed |-> executed, history |-> h]

Answered(h, question, answer, found, tool_called, calls, executed) ==
    [raised |-> "none",
     result |-> [question |-> Text(question), answer |-> answer,
                 sources |-> Sources(found), tool_called |-> tool_called],
     calls |-> calls, executed |-> executed,
     history |-> _trim_history(
                     h \o HistoryEntries(question,
                                         calls[1].messages[Len(calls[1].messages)],
                                         answer),
                     max_history)]

\* query(question, k) on a chain whose history is h: response is what the first
\* model call returns, final the text the second one returns, fail_at the model
\* call of this query that raises (0: none), now and rnd what the clock and the
\* random module give the tool
QueryOn(h, question, k, response, final, fail_at, now, rnd) ==
    LET retrieved == search(vectorstore, disk, question, k)
    IN  IF retrieved.raised # "none" THEN Aborted(h, retrieved.raised, <<>>, <<>>)
        ELSE
        LET found == retrieved.value
            messages == BuildMessages(h, _build_context(found), question)
            first == Completion(messages, tools)
        IN  IF fail_at = 1 THEN Aborted(h, ModelError, <<first>>, <<>>)
            ELSE IF tools # <<>> /\ response.tool_calls # <<>>
            THEN LET tool_call == response.tool_calls[1]
                     tool_result == _handle_tool_call(tool_call, weather_service, now, rnd)
                     second == Completion(messages
                                          \o <<AssistantToolCall(tool_call),
                                               ToolMessage(tool_call, tool_result.value)>>,
                                          <<>>)
                 IN  IF tool_result.raised # "none"
                     THEN Aborted(h, tool_result.raised, <<first>>, <<tool_call>>)
                     ELSE IF fail_at = 2
                     THEN Aborted(h, ModelError, <<first, second>>, <<tool_call>>)
                     ELSE Answered(h, question, Text(final), found, TRUE,
                                   <<first, second>>, <<tool_call>>)
            ELSE Answered(h, question, response.content, found, FALSE, <<first>>, <<>>)

QueryOutcome(question, k, response, final, fail_at, now, rnd) ==
    QueryOn(history, question, k, response, final, fail_at, now, rnd)

\* the inputs of a query that make one call: a model call that raises returns no
\* response, and only a response with a tool call leads to a second model call
QueryInputs(response, fail_at) ==
    /\ tools = <<>> => response.tool_calls = <<>>
    /\ fail_at = 1 <=> response = NoResponse
    /\ fail_at = 2 => tools # <<>> /\ response.tool_calls # <<>>

\* what the caller and the model saw of a query: the arguments, the response of
\* the first model call and the text of the second one (None when none came back)
QueryInput(question, k, response, final, fail_at, o) ==
    [question |-> question, k |-> k, response |-> response,
     final |-> IF o.raised = "none" /\ Len(o.calls) = 2 THEN Text(final) ELSE PyNone,
     fail_at |-> fail_at]

query(question, k, response, final, fail_at, now, rnd) ==
    /\ Len(turns) < MaxTurns
    /\ QueryInputs(response, fail_at)
    /\ \E o \in {QueryOutcome(question, k, response, final, fail_at, now, rnd)} :
        /\ history' = o.history
        /\ last' = [op |-> "query",
                    input |-> QueryInput(question, k, response, final, fail_at, o),
                    raised |-> o.raised, result |-> o.result,
                    calls |-> o.calls, executed |-> o.executed,
                    before |-> history, after_clear |-> cleared]
        /\ turns' = IF o.raised = "none"
                    THEN Append(turns, [question |-> question, answer |-> o.result.answer])
                    ELSE turns
        /\ cleared' = (cleared /\ o.calls = <<>>)
        /\ UNCHANGED <<max_history, weather_service, tools, vectorstore, chunks, disk,
                       lastBuild, loaded>>

\* clear_history that drops only the oldest turn
clear_history_oldest ==
    /\ history' = SliceFrom(history, 2)
    /\ last' = Did("clear_history", "none", NoValue)
    /\ turns' = <<>>
    /\ cleared' = TRUE
    /\ UNCHANGED <<max_history, weather_service, tools, vectorstore, chunks, disk,
                   lastBuild, loaded>>

clear_history ==
    /\ history' = <<>>
    /\ last' = Did("clear_history", "none", NoValue)
    /\ turns' = <<>>
    /\ cleared' = TRUE
    /\ UNCHANGED <<max_history, weather_service, tools, vectorstore, chunks, disk,
                   lastBuild, loaded>>

\* get_history: a copy of the list
get_history == history

(***************************************************************************)
(* Inputs of the chain: questions, what the model answers, the tool calls  *)
(* it requests, and the clock and the draws the tool gets.                 *)
(***************************************************************************)
Questions == { <<"q1">>, <<"q2">> }
Answers == { <<"a1">>, <<"a2">> }

ToolCall(id, name, arguments) ==
    [id |-> id, function |-> [name |-> name, arguments |-> arguments]]

ChainClock == [year |-> 2025, month |-> 6, day |-> 5, tick |-> 1]

ChainArgs ==
    { NotAnObject("invalid"), NotAnObject("array"), NotAnObject("null"),
      Object(JAbsent, JAbsent), Object(JNumber, JAbsent),
      Object(JStr(Iso(<<2025, 6, 6>>)), JAbsent),
      Object(JStr(Short(<<2025, 6, 6>>)), JStr(<<"Puerto de la Cruz">>)),
      Object(JStr(Iso(<<2025, 7, 1>>)), JAbsent) }

FirstToolCalls ==
    {ToolCall("call_1", "get_weather", a) : a \in ChainArgs}
        \cup {ToolCall("call_1", "get_flights", Object(JAbsent, JAbsent))}

\* the further tool calls of a response that requests several
MoreToolCalls(n) ==
    [i \in 1..n |->
        ToolCall("call_" \o ToString(i + 1), "get_weather",
                 Object(JStr(Iso(<<2025, 6, 7>>)), JAbsent))]

\* the first tool calls of the responses that request several
SeveralAfter ==
    {ToolCall("call_1", "get_weather", a) :
        a \in {NotAnObject("array"), Object(JStr(Iso(<<2025, 6, 6>>)), JAbsent)}}

Responses ==
    {[content |-> Text(a), tool_calls |-> <<>>] : a \in Answers}
        \cup {[content |-> PyNone, tool_calls |-> <<c>>] : c \in FirstToolCalls}
        \cup {[content |-> PyNone, tool_calls |-> <<c>> \o MoreToolCalls(n)] :
                 c \in SeveralAfter, n \in 1..(MaxToolCalls - 1)}

\* the stores a chain is created on: a fresh one, one whose build failed, one
\* built from no page, one built from a document
ChainStores ==
    { FreshStore,
      AfterBuild(FreshStore, PagesUpTo(MaxPages), TRUE, FALSE),
      AfterBuild(FreshStore, <<>>, TRUE, TRUE),
      AfterBuild(FreshStore, PagesUpTo(MaxPages), TRUE, TRUE) }

\* the texts the second model call can return; a response without a tool call
\* leads to no second call, and a call that raises returns no text
FinalsFor(response, fail_at) ==
    IF response.tool_calls = <<>> \/ fail_at # 0
    THEN {CHOOSE a \in Answers : TRUE} ELSE Answers

\* the tool call a response asks the chain to execute, if any
RequestedDate(response) ==
    IF response.tool_calls = <<>> THEN JNull
    ELSE dict_get(response.tool_calls[1].function.arguments, "date", JNull)

\* one draw of the simulator for the requested date
ChainDraws(response) ==
    LET date == RequestedDate(response)
    IN  IF date.type = "str" /\ strptime(date.s).ok
        THEN LET month == strptime(date.s).month
             IN  {[temp_high |-> CHOOSE t \in TempHighRange(month) : TRUE,
                   temp_low |-> CHOOSE t \in TempLowRange(month) : TRUE,
                   condition |-> CHOOSE c \in choices(CONDITIONS) : TRUE,
                   humidity |-> CHOOSE h \in HumidityRange : TRUE,
                   wind_speed |-> CHOOSE w \in WindSpeedRange : TRUE]}
        ELSE {NoDraw}

(***************************************************************************)
(* The chain and its vector store                                          *)
(***************************************************************************)
WeatherIdle ==
    /\ w_pc = "idle"
    /\ w_simulated = TRUE
    /\ w_args = NotAnObject("invalid")
    /\ w_now = ChainClock
    /\ w_out = NoOutput

\* no UI session has run the script
MaxSessions == 2   \* UI sessions open at once
Sessions == 1..MaxSessions
NoSession == [rag |-> 0, messages |-> <<>>]
AppIdle ==
    /\ cache_resource = 0
    /\ rags = <<>>
    /\ session_state = [s \in Sessions |-> NoSession]

\* no caller holds a list returned by get_history
NotReturned == [taken |-> FALSE, ids |-> <<>>]
ObjectsIdle ==
    /\ objects = <<>>
    /\ history_ids = <<>>
    /\ returned = NotReturned

Init ==
    /\ max_history \in 0..MaxHistory
    /\ weather_service \in {"None", "WeatherService"}
    /\ tools = IF weather_service # "None" THEN <<WEATHER_TOOL_SCHEMA>> ELSE <<>>
    /\ history = <<>>
    /\ \E st \in ChainStores :
          /\ vectorstore = st.vectorstore
          /\ chunks = st.chunks
          /\ disk = st.disk
          /\ lastBuild = st.lastBuild
    /\ last = NoCall
    /\ turns = <<>>
    /\ cleared = FALSE
    /\ loaded = FALSE
    /\ WeatherIdle
    /\ AppIdle
    /\ ObjectsIdle

Query ==
    /\ \E question \in Questions, k \in 1..MaxK,
          response \in Responses \cup {NoResponse}, fail_at \in 0..2 :
          \E final \in FinalsFor(response, fail_at), rnd \in ChainDraws(response) :
              query(question, k, response, final, fail_at, ChainClock, rnd)
    /\ UNCHANGED <<weatherVars, appVars, objVars>>

ClearHistory == clear_history /\ UNCHANGED <<weatherVars, appVars, objVars>>

BuildFromDocuments ==
    /\ \E pages \in PageCollections, clear_existing \in BOOLEAN, backend_ok \in BOOLEAN :
          build_from_documents(pages, clear_existing, backend_ok)
    /\ UNCHANGED <<weatherVars, appVars, objVars>>

LoadExisting ==
    /\ \E backend_ok \in BOOLEAN : load_existing(backend_ok)
    /\ UNCHANGED <<weatherVars, appVars, objVars>>

CallSearch ==
    /\ \E question \in Questions, k \in 1..MaxK, scores \in BOOLEAN :
          Search(question, k, scores)
    /\ UNCHANGED <<weatherVars, appVars, objVars>>

Next == Query \/ ClearHistory \/ CallSearch

Spec == Init /\ [][Next]_vars

(***************************************************************************)
(* The vector store alone: builds, loads and searches                      *)
(***************************************************************************)
InitStore ==
    /\ max_history = 0
    /\ weather_service = "None"
    /\ tools = <<>>
    /\ history = <<>>
    /\ vectorstore = FreshStore.vectorstore
    /\ chunks = FreshStore.chunks
    /\ disk = FreshStore.disk
    /\ lastBuild = FreshStore.lastBuild
    /\ last = NoCall
    /\ turns = <<>>
    /\ cleared = FALSE
    /\ loaded = FALSE
    /\ WeatherIdle
    /\ AppIdle
    /\ ObjectsIdle

NextStore == BuildFromDocuments \/ LoadExisting \/ CallSearch

SpecStore == InitStore /\ [][NextStore]_vars

(***************************************************************************)
(* One call of the weather service on every input                          *)
(***************************************************************************)
InitWeather ==
    /\ max_history = 0
    /\ weather_service = "WeatherService"
    /\ tools = <<WEATHER_TOOL_SCHEMA>>
    /\ history = <<>>
    /\ vectorstore = "None"
    /\ chunks = <<>>
    /\ disk = NoDirectory
    /\ last = NoCall
    /\ turns = <<>>
    /\ cleared = FALSE
    /\ loaded = FALSE
    /\ lastBuild = "none"
    /\ w_pc = "call"
    /\ w_simulated \in BOOLEAN
    /\ w_args \in ArgPayloads
    /\ w_now \in Clocks
    /\ w_out = NoOutput
    /\ AppIdle
    /\ ObjectsIdle

\* a caller's get_weather(date, location) or get_weather(date)
CallGetWeather ==
    /\ w_pc = "call"
    /\ w_args.json = "object"
    /\ w_args.date.type # "absent"
    /\ \E rnd \in DrawsFor(w_args.date, w_simulated, w_now,
                           Ends(HumidityRange), Ends(WindSpeedRange)) :
          w_out' = [op |-> "get_weather",
                    out |-> get_weather(
                                w_args.date,
                                dict_get(w_args, "location", DefaultLocation),
                                w_simulated, w_now, rnd)]
    /\ w_pc' = "done"
    /\ UNCHANGED <<w_simulated, w_args, w_now>>
    /\ UNCHANGED <<chainVars, appVars, objVars>>

CallParseToolCall ==
    /\ w_pc = "call"
    /\ \E rnd \in DrawsFor(dict_get(w_args, "date", JNull), w_simulated, w_now,
                           Ends(HumidityRange), Ends(WindSpeedRange)) :
          w_out' = [op |-> "parse_tool_call",
                    out |-> parse_tool_call(w_args, w_simulated, w_now, rnd)]
    /\ w_pc' = "done"
    /\ UNCHANGED <<w_simulated, w_args, w_now>>
    /\ UNCHANGED <<chainVars, appVars, objVars>>

NextWeather == CallGetWeather \/ CallParseToolCall

SpecWeather == InitWeather /\ [][NextWeather]_vars

(***************************************************************************)
(* The Streamlit application (app.py).  Every UI session runs the script   *)
(* with its own st.session_state; st.cache_resource keeps the value the    *)
(* first call of init_rag_chain returned and hands it to every later call, *)
(* in every session.                                                       *)
(***************************************************************************)
AppK == 5              \* rag.query(prompt, k=5)
AppMaxHistory == 5     \* RAGChain(..., max_history=5)

\* the pages loader.load() returns
AppPages == PagesUpTo(MaxPages)

\* what the model answers the chat: a text, a get_weather tool call, or nothing
\* (the call raises)
AppResponses ==
    { [content |-> Text(<<"a1">>), tool_calls |-> <<>>],
      [content |-> PyNone,
       tool_calls |-> <<ToolCall("call_1", "get_weather",
                                 Object(JStr(Iso(<<2025, 6, 6>>)), JAbsent))>>],
      NoResponse }

\* what the user of session s types
PromptOf(s) == <<"q" \o ToString(s)>>

\* the record of a step of a UI session
AppDid(op, s, raised) ==
    [Did(op, raised, NoValue) EXCEPT !.input = [session |-> s]]

InitApp ==
    /\ max_history = AppMaxHistory
    /\ weather_service = "WeatherService"
    /\ tools = <<WEATHER_TOOL_SCHEMA>>
    /\ history = <<>>
    /\ vectorstore = FreshStore.vectorstore
    /\ chunks = FreshStore.chunks
    /\ disk = FreshStore.disk
    /\ lastBuild = FreshStore.lastBuild
    /\ last = NoCall
    /\ turns = <<>>
    /\ cleared = FALSE
    /\ loaded = FALSE
    /\ WeatherIdle
    /\ AppIdle
    /\ ObjectsIdle

\* the first run of the script in session s: "rag" is not in its session_state,
\* so it calls init_rag_chain, which runs only if st.cache_resource holds nothing
RunScript(s) ==
    /\ session_state[s].rag = 0
    /\ IF cache_resource = 0
       THEN \E after \in {AfterBuild(Store, AppPages, TRUE, TRUE)} :
               /\ vectorstore' = after.vectorstore
               /\ chunks' = after.chunks
               /\ disk' = after.disk
               /\ lastBuild' = after.lastBuild
               /\ rags' = Append(rags, <<>>)
               /\ cache_resource' = Len(rags) + 1
       ELSE UNCHANGED <<vectorstore, chunks, disk, lastBuild, rags, cache_resource>>
    /\ session_state' = [session_state EXCEPT ![s].rag = cache_resource']
    /\ last' = AppDid("run_script", s, "none")
    /\ UNCHANGED <<max_history, weather_service, tools, history, turns, cleared, loaded>>
    /\ UNCHANGED <<weatherVars, objVars>>

\* the chat input of session s: the prompt goes to st.session_state.rag.query
Chat(s) ==
    /\ session_state[s].rag # 0
    /\ Len(session_state[s].messages) < 2 * MaxTurns
    /\ Len(rags[session_state[s].rag]) < 2 * MaxTurns
    /\ \E prompt \in {PromptOf(s)}, response \in AppResponses, fail_at \in 0..1 :
          /\ QueryInputs(response, fail_at)
          /\ \E rnd \in ChainDraws(response) :
             \E o \in {QueryOn(rags[session_state[s].rag], prompt, AppK, response,
                               <<"a2">>, fail_at, ChainClock, rnd)} :
                /\ rags' = [rags EXCEPT ![session_state[s].rag] = o.history]
                /\ session_state' =
                      [session_state EXCEPT ![s].messages =
                          @ \o <<[role |-> "user", content |-> Text(prompt)]>>
                            \o (IF o.raised # "none" THEN <<>>
                                ELSE <<[role |-> "assistant",
                                        content |-> o.result.answer,
                                        tool_called |-> o.result.tool_called]>>)]
                /\ last' = AppDid("chat", s, o.raised)
    /\ UNCHANGED <<max_history, weather_service, tools, history, vectorstore, chunks,
                   disk, turns, cleared, lastBuild, loaded, cache_resource>>
    /\ UNCHANGED <<weatherVars, objVars>>

\* the clear-conversation button of session s
ClearConversation(s) ==
    /\ session_state[s].rag # 0
    /\ session_state' = [session_state EXCEPT ![s].messages = <<>>]
    /\ rags' = [rags EXCEPT ![session_state[s].rag] = <<>>]
    /\ last' = AppDid("clear_conversation", s, "none")
    /\ UNCHANGED <<max_history, weather_service, tools, history, vectorstore, chunks,
                   disk, turns, cleared, lastBuild, loaded, cache_resource>>
    /\ UNCHANGED <<weatherVars, objVars>>

NextApp == \E s \in Sessions : RunScript(s) \/ Chat(s) \/ ClearConversation(s)

SpecApp == InitApp /\ [][NextApp]_vars

(***************************************************************************)
(* The objects behind the history.  RAGChain.history is a Python list of   *)
(* dicts: history_ids holds the addresses of its dicts, objects the dict   *)
(* at each address, and history is what the list reads as.  A caller of    *)
(* get_history gets a new list of the same dicts and changes it.           *)
(***************************************************************************)
MaxObjects == 5    \* message dicts created in one run

\* the messages a list of addresses reads as
Deref(heap, ids) == [i \in 1..Len(ids) |-> heap[ids[i]]]

LastOf(s) == s[Len(s)]

\* list.copy(): a new list of the same elements
list_copy(ids) == ids

\* the dict a caller appends to the list it was given
CallerMessage == [role |-> "user", content |-> Text(<<"edited">>)]

\* what the model answers the queries of this run: a text, or nothing (the
\* call raises)
ObjectsResponses == {[content |-> Text(<<"a1">>), tool_calls |-> <<>>], NoResponse}

InitObjects ==
    /\ max_history = 1
    /\ weather_service = "None"
    /\ tools = <<>>
    /\ history = <<>>
    /\ \E st \in {AfterBuild(FreshStore, PagesUpTo(MaxPages), TRUE, TRUE)} :
          /\ vectorstore = st.vectorstore
          /\ chunks = st.chunks
          /\ disk = st.disk
          /\ lastBuild = st.lastBuild
    /\ last = NoCall
    /\ turns = <<>>
    /\ cleared = FALSE
    /\ loaded = FALSE
    /\ WeatherIdle
    /\ AppIdle
    /\ ObjectsIdle

\* query: step 5 appends two new dicts to the list, _trim_history replaces the
\* list by a slice of it
QueryObjects ==
    /\ Len(objects) + 2 <= MaxObjects
    /\ \E question \in {<<"q1">>}, response \in ObjectsResponses, fail_at \in 0..1 :
          query(question, 1, response, <<"a2">>, fail_at, ChainClock, NoDraw)
    /\ IF last'.raised # "none"
       THEN UNCHANGED <<objects, history_ids>>
       ELSE /\ objects' = objects \o HistoryEntries(last'.input.question,
                                                     LastOf(last'.calls[1].messages),
                                                     last'.result.answer)
            /\ history_ids' = _trim_history(
                                  history_ids \o <<Len(objects) + 1, Len(objects) + 2>>,
                                  max_history)
    /\ UNCHANGED returned
    /\ UNCHANGED <<weatherVars, appVars>>

\* clear_history: self.history is a new empty list
ClearObjects ==
    /\ clear_history
    /\ history_ids' = <<>>
    /\ UNCHANGED <<objects, returned>>
    /\ UNCHANGED <<weatherVars, appVars>>

\* what a step of the caller leaves alone: RAGChain.history itself and the
\* rest of the chain; what the list reads as follows from the dicts
CallerStep(op) ==
    /\ UNCHANGED <<max_history, weather_service, tools, vectorstore, chunks, disk,
                   turns, cleared, lastBuild, loaded, history_ids>>
    /\ UNCHANGED <<weatherVars, appVars>>
    /\ history' = Deref(objects', history_ids')
    /\ last' = Did(op, "none", NoValue)

\* get_history: the caller gets self.history.copy()
GetHistory ==
    /\ returned' = [taken |-> TRUE, ids |-> list_copy(history_ids)]
    /\ UNCHANGED objects
    /\ CallerStep("get_history")

\* the caller appends a message to the list it was given
CallerAppends ==
    /\ returned.taken
    /\ Len(objects) < MaxObjects
    /\ objects' = Append(objects, CallerMessage)
    /\ returned' = [returned EXCEPT !.ids = Append(@, Len(objects) + 1)]
    /\ CallerStep("caller_appends")

\* the caller removes the first message of the list it was given
CallerRemoves ==
    /\ returned.taken
    /\ returned.ids # <<>>
    /\ returned' = [returned EXCEPT !.ids = Tail(@)]
    /\ UNCHANGED objects
    /\ CallerStep("caller_removes")

\* the caller sets the role or the content of a message of the list it was given
CallerAlters ==
    /\ returned.taken
    /\ \E i \in DOMAIN returned.ids :
          \/ objects' = [objects EXCEPT ![returned.ids[i]].content = Text(<<"edited">>)]
          \/ objects' = [objects EXCEPT ![returned.ids[i]].role = "system"]
    /\ UNCHANGED returned
    /\ CallerStep("caller_alters")

NextObjects ==
    \/ QueryObjects
    \/ ClearObjects
    \/ GetHistory
    \/ CallerAppends
    \/ CallerRemoves
    \/ CallerAlters

SpecObjects == InitObjects /\ [][NextObjects]_vars

(***************************************************************************)
(* Properties                                                              *)
(***************************************************************************)
IsError(payload) == "error" \in DOMAIN payload /\ payload.error
IsForecast(payload) == "temperature_high" \in DOMAIN payload

RECURSIVE TurnMessages(_)
TurnMessages(ts) ==
    IF ts = <<>> THEN <<>>
    ELSE << [role |-> "user", content |-> Text(ts[1].question)],
            [role |-> "assistant", content |-> ts[1].answer] >>
         \o TurnMessages(Tail(ts))

LastTurns(ts, n) == SubSeq(ts, Len(ts) - n + 1, Len(ts))

\* C1: after N successful queries on a chain created with max_history = M, the
\* history is exactly the most recent min(N, M) turns, in their order
\* (2 * min(N, M) messages).
C1_HistoryIsLastTurns ==
    /\ Len(history) = 2 * Min(Len(turns), max_history)
    /\ history = TurnMessages(LastTurns(turns, Min(Len(turns), max_history)))

\* a date string in the form YYYY-MM-DD: four digits, two digits, two digits
IsYMDForm(s) ==
    /\ Len(s) = 10
    /\ s[5] = "-" /\ s[8] = "-"
    /\ \A i \in {1, 2, 3, 4, 6, 7, 9, 10} : s[i] \in Digits

YMDYear(s) == 1000 * Val(s, 1) + 100 * Val(s, 2) + 10 * Val(s, 3) + Val(s, 4)
YMDMonth(s) == 10 * Val(s, 6) + Val(s, 7)
YMDDay(s) == 10 * Val(s, 9) + Val(s, 10)

\* a well-formed requested date: the form YYYY-MM-DD and a day of the calendar
IsCalendarDate(s) ==
    /\ IsYMDForm(s)
    /\ YMDYear(s) >= 1
    /\ YMDMonth(s) \in 1..12
    /\ YMDDay(s) \in 1..DaysInMonth(YMDYear(s), YMDMonth(s))

\* calendar days from today's date to the requested date
DaysAhead(s, now) ==
    toordinal(YMDYear(s), YMDMonth(s), YMDDay(s))
        - toordinal(now.year, now.month, now.day)

\* a finished get_weather call of the simulated service on a date string and a
\* valid location
GetWeatherDone ==
    /\ w_pc = "done"
    /\ w_out.op = "get_weather"
    /\ w_simulated
    /\ w_args.date.type = "str"
    /\ w_args.location.type \in {"absent", "str"}

ModelAnswered == last.input.fail_at = 0

\* the argument payloads C3 names: not JSON, JSON that is no object, an object
\* without "date", an object whose "date" is no string
IsMalformed(args) == args.json # "object" \/ args.date.type # "str"

\* C3: on every malformed argument payload of a get_weather tool call,
\* parse_tool_call returns an error payload and does not raise, and query()
\* (the model answering its calls) completes and returns a result.
C3_NoCrashOnMalformedArguments ==
    (/\ last.op = "query"
     /\ ModelAnswered
     /\ last.executed # <<>>
     /\ last.executed[1].function.name = "get_weather"
     /\ IsMalformed(last.executed[1].function.arguments)) =>
        /\ last.raised = "none"
        /\ "answer" \in DOMAIN last.result
        /\ Len(last.calls) = 2
        /\ LET sent == last.calls[2].messages
           IN  /\ "json" \in DOMAIN sent[Len(sent)].content
               /\ IsError(sent[Len(sent)].content.json)

\* C4: a get_weather request whose date string is not in YYYY-MM-DD form always
\* gets an error payload, never a forecast.
C4_NonYMDDateIsRejected ==
    (GetWeatherDone /\ ~IsYMDForm(w_args.date.s)) =>
        IsError(w_out.out.value) /\ ~IsForecast(w_out.out.value)

\* a message of the stored history: a question or an answer, nothing else
IsTurnMessage(m) ==
    /\ DOMAIN m = {"role", "content"}
    /\ \/ m.role = "user" /\ \E q \in Questions : m.content = Text(q)
       \/ m.role = "assistant" /\ \E a \in Answers : m.content = Text(a)

\* C5: after every successful query the last two messages of the history are
\* the user's question as passed in and the answer returned; the context block,
\* the assistant's tool-call message and the tool message are never stored.
C5_HistoryHoldsQuestionAndAnswer ==
    /\ \A i \in DOMAIN history : IsTurnMessage(history[i])
    /\ (last.op = "query" /\ last.raised = "none") =>
          /\ Len(history) >= 2
          /\ history[Len(history) - 1]
                = [role |-> "user", content |-> Text(last.input.question)]
          /\ history[Len(history)]
                = [role |-> "assistant", content |-> last.result.answer]

\* a query that called a tool succeeded on a chain that already had a history
C5_Witness ==
    /\ last.op = "query" /\ last.raised = "none"
    /\ last.result.tool_called
    /\ last.before # <<>>

\* C6: after clear_history, get_history returns the empty sequence, and the
\* next query submits exactly the system message and one user message.
C6_ClearedHistoryIsEmpty ==
    /\ cleared => get_history = <<>>
    /\ (last.op = "query" /\ last.after_clear /\ last.calls # <<>>) =>
          LET sent == last.calls[1].messages
          IN  /\ Len(sent) = 2
              /\ sent[1] = SystemMessage
              /\ sent[2].role = "user"
              /\ SliceFrom(sent[2].content.text, 0 - Len(last.input.question))
                    = last.input.question

\* the first query after a clear_history reached the model and answered
C6_Witness ==
    /\ last.op = "query" /\ last.after_clear /\ last.raised = "none"
    /\ Len(history) = 2

\* C7 (the model answering its calls): tool_called is true exactly when the
\* first response has a tool call: then
\* the tool is executed, a second model call is made and tool_called = true is
\* returned; otherwise no tool is executed, no second call is made, the answer
\* is the first response's text and tool_called = false.
C7_ToolCalledIffToolCall ==
    (last.op = "query" /\ last.calls # <<>> /\ ModelAnswered) =>
        IF last.input.response.tool_calls # <<>>
        THEN /\ last.raised = "none"
             /\ Len(last.executed) = 1
             /\ Len(last.calls) = 2
             /\ last.result.tool_called = TRUE
        ELSE /\ last.raised = "none"
             /\ last.executed = <<>>
             /\ Len(last.calls) = 1
             /\ last.result.answer = last.input.response.content
             /\ last.result.tool_called = FALSE

\* C8 (the model answering its calls): when the first response requests
\* n >= 1 tool calls, only the first is
\* invoked, echoed in the assistant message and answered by a tool message, and
\* the model is called exactly twice.
C8_OneToolCallTwoModelCalls ==
    (/\ last.op = "query" /\ last.calls # <<>> /\ ModelAnswered
     /\ last.input.response.tool_calls # <<>>) =>
        LET requested == last.input.response.tool_calls
        IN  /\ last.executed = <<requested[1]>>
            /\ Len(last.calls) = 2
            /\ LET first == last.calls[1].messages
                   second == last.calls[2].messages
               IN  /\ Len(second) = Len(first) + 2
                   /\ SubSeq(second, 1, Len(first)) = first
                   /\ second[Len(first) + 1] = AssistantToolCall(requested[1])
                   /\ second[Len(first) + 2].role = "tool"
                   /\ second[Len(first) + 2].tool_call_id = requested[1].id

\* C9: while neither build_from_documents nor load_existing has completed,
\* search and search_with_scores raise the "not initialized" error, and query
\* raises it too, having called no model, returning nothing and leaving the
\* history as it was.
C9_NotInitializedIsFatal ==
    (lastBuild = "none" /\ ~loaded) =>
        /\ \A q \in Questions, k \in 1..MaxK :
              /\ search(vectorstore, disk, q, k) = Raised(NotInitializedError)
              /\ search_with_scores(vectorstore, disk, q, k) = Raised(NotInitializedError)
        /\ last.op \in {"search", "search_with_scores"} =>
              last.raised = NotInitializedError
        /\ last.op = "query" =>
              /\ last.raised = NotInitializedError
              /\ last.calls = <<>>
              /\ last.result = NoValue
              /\ history = last.before

\* a query was made on a store that no build and no load has completed on
C9_Witness ==
    /\ lastBuild = "none" /\ ~loaded
    /\ last.op = "query"
    /\ last.raised = NotInitializedError

\* C10: after build_from_documents of an empty page collection the index is
\* empty and every search raises the "not initialized" error, until a build of
\* a non-empty collection succeeds.
C10_EmptyBuildLeavesUninitialized ==
    lastBuild = "empty" =>
        /\ disk.docs = <<>>
        /\ \A q \in Questions, k \in 1..MaxK :
              search(vectorstore, disk, q, k) = Raised(NotInitializedError)

\* the sequence s ends with the sequence t
EndsWith(s, t) == Len(t) <= Len(s) /\ SubSeq(s, Len(s) - Len(t) + 1, Len(s)) = t

\* what a search and get_chunk_stats read: the handle, the chunks, the persisted data
Index == <<vectorstore, chunks, disk>>

\* C11: a build_from_documents leaves either the complete new index (the new
\* handle, the new chunks, and the new chunks persisted) or, when it fails, the
\* complete old one (handle, chunks and persisted data as they were), never a
\* mixture of the two.
C11_RebuildIsAtomic ==
    [][ last'.op = "build_from_documents" =>
            IF last'.raised = "none"
            THEN /\ vectorstore' = "Chroma"
                 /\ disk'.exists
                 /\ EndsWith(disk'.docs, chunks')
            ELSE Index' = Index ]_vars

\* the history that builds the prompts of session s
HistoryOf(s) == rags[session_state[s].rag]

\* C12: a chat or a clear-conversation in one UI session never changes the
\* history that builds the prompts of another session.
C12_SessionsOwnTheirHistory ==
    [][ \A s \in Sessions :
           (/\ last'.op \in {"chat", "clear_conversation"}
            /\ last'.input.session # s
            /\ session_state[s].rag # 0) => HistoryOf(s)' = HistoryOf(s) ]_vars

\* the last message of the last model call of the last query
LastSent == LET sent == last.calls[Len(last.calls)].messages IN sent[Len(sent)]

\* what the weather tool returned on the arguments of a tool call; an error
\* payload does not depend on the draws of the simulator
ToolReturned(tool_call) ==
    parse_tool_call(tool_call.function.arguments, TRUE, ChainClock, NoDraw)

\* the last query executed get_weather and the tool returned an error payload
ToolReturnedError ==
    /\ last.op = "query"
    /\ last.executed # <<>>
    /\ last.executed[1].function.name = "get_weather"
    /\ ToolReturned(last.executed[1]).raised = "none"
    /\ IsError(ToolReturned(last.executed[1]).value)

\* C13 (the model answering its calls): whenever the executed tool returns an
\* error payload, query does not raise; the payload's JSON text is the content
\* of the role "tool" message that ends the second model call, and query
\* returns that call's text with tool_called = true.
C13_ToolErrorIsFedBack ==
    (ToolReturnedError /\ ModelAnswered) =>
        /\ last.raised = "none"
        /\ Len(last.calls) = 2
        /\ LastSent = [role |-> "tool",
                       tool_call_id |-> last.executed[1].id,
                       content |-> json_dumps(ToolReturned(last.executed[1]).value)]
        /\ last.result.answer = last.input.final
        /\ last.result.tool_called = TRUE

\* a query whose tool call asked for a date too far ahead was answered
C13_Witness ==
    /\ ToolReturnedError /\ ModelAnswered
    /\ ToolReturned(last.executed[1]).value = ErrorPayload(TooFarMessage)
    /\ last.raised = "none"

\* C14 (the model answering its calls): a tool call that names a function
\* other than get_weather runs no tool; the "unknown function" error payload
\* naming it is the tool result of the second model call, and query does not
\* raise.
C14_UnknownToolIsReported ==
    (/\ last.op = "query" /\ ModelAnswered
     /\ last.executed # <<>>
     /\ last.executed[1].function.name # "get_weather") =>
        /\ last.raised = "none"
        /\ Len(last.calls) = 2
        /\ LastSent = [role |-> "tool",
                       tool_call_id |-> last.executed[1].id,
                       content |-> json_dumps(
                           [error |-> TRUE,
                            message |-> <<"Función desconocida: ",
                                          last.executed[1].function.name>>])]
        /\ last.result.tool_called = TRUE

\* a query whose response asked for get_flights was answered
C14_Witness ==
    /\ last.op = "query" /\ ModelAnswered
    /\ last.executed # <<>>
    /\ last.executed[1].function.name = "get_flights"
    /\ last.result # NoValue

\* the seasonal band of temperature_high for a calendar month
SeasonBand(month) ==
    IF month \in {12, 1, 2} THEN 18..22
    ELSE IF month \in {3, 4, 5} THEN 20..24
    ELSE IF month \in {6, 7, 8} THEN 25..30
    ELSE 22..26

\* a finished call of the weather service that returned a forecast
ForecastReturned ==
    /\ w_pc = "done"
    /\ w_out.out.raised = "none"
    /\ IsForecast(w_out.out.value)

\* the calendar month of the date a forecast is for
ForecastMonth == strptime(w_out.out.value.date).month

\* C15: the temperature_high of every forecast lies in the band of the month of
\* its date: 18..22 December-February, 20..24 March-May, 25..30 June-August,
\* 22..26 September-November, whatever the random module draws.
C15_SeasonalBanding ==
    ForecastReturned =>
        w_out.out.value.temperature_high \in SeasonBand(ForecastMonth)

\* a December forecast with the highest temperature of the winter band
C15_Witness ==
    /\ ForecastReturned
    /\ ForecastMonth = 12
    /\ w_out.out.value.temperature_high = 22

\* C16: nothing the caller does to the list get_history returned (appending
\* or removing messages, setting the role or the content of a message) changes
\* the stored history, which builds the messages of the later queries.
C16_HistorySnapshotIsReadOnly ==
    [][ last'.op \in {"caller_appends", "caller_removes", "caller_alters"} =>
            history' = history ]_vars

\* C17: the first model call of every query gets the system message, then the
\* stored history in its order, then one user message holding the context block
\* followed by the question; in the tool branch the second call gets the same
\* messages, then the assistant's tool-call message, then a role "tool" message
\* whose tool_call_id is the id of that tool call.
C17_MessageAssemblyOrder ==
    (last.op = "query" /\ last.calls # <<>>) =>
        LET first == last.calls[1].messages
            found == similarity_search(disk, last.input.question, last.input.k)
        IN  /\ Len(first) = Len(last.before) + 2
            /\ first[1] = [role |-> "system", content |-> Text(SYSTEM_PROMPT)]
            /\ SubSeq(first, 2, Len(first) - 1) = last.before
            /\ first[Len(first)]
                  = [role |-> "user",
                     content |-> Text(<<"CONTEXTO:\n">> \o _build_context(found)
                                      \o <<"\n\nPREGUNTA: ">> \o last.input.question)]
            /\ Len(last.calls) = 2 =>
                  LET second == last.calls[2].messages
                      n == Len(first)
                  IN  /\ Len(second) = n + 2
                      /\ SubSeq(second, 1, n) = first
                      /\ second[n + 1].role = "assistant"
                      /\ second[n + 1].tool_calls[1].id = last.executed[1].id
                      /\ second[n + 1].tool_calls[1].function = last.executed[1].function
                      /\ second[n + 2].role = "tool"
                      /\ second[n + 2].tool_call_id = second[n + 1].tool_calls[1].id

\* a query on a chain with a history made its second model call
C17_Witness ==
    /\ last.op = "query"
    /\ Len(last.calls) = 2
    /\ last.before # <<>>

\* C18: when the first or the second model call of a query raises, query
\* raises: no model call was made twice, nothing is returned and the history
\* is what it was before the query.
C18_ModelFailureIsFatal ==
    last.op = "query" =>
        /\ (last.input.fail_at = 1 /\ last.calls # <<>>) =>
              last.raised = ModelError /\ Len(last.calls) = 1 /\ last.executed = <<>>
        /\ (last.input.fail_at = 2 /\ Len(last.calls) = 2) => last.raised = ModelError
        /\ last.raised = ModelError =>
              /\ last.result = NoValue
              /\ history = last.before
              /\ Len(last.calls) = last.input.fail_at
              /\ Len(last.calls) = 2 => last.calls[1] # last.calls[2]

\* the second model call of a query on a chain with a history raised
C18_Witness ==
    /\ last.op = "query"
    /\ last.raised = ModelError
    /\ last.input.fail_at = 2
    /\ last.before # <<>>

\* C19: a build_from_documents that follows a build of the same pages leaves
\* the searchable index with as many chunks as the first build left it, and
\* get_chunk_stats reporting the same, whatever clear_existing was.
C19_RebuildIsIdempotent ==
    [][ (/\ last.op = "build_from_documents" /\ last.raised = "none"
         /\ last'.op = "build_from_documents" /\ last'.raised = "none"
         /\ last'.input.pages = last.input.pages) =>
            /\ Len(disk'.docs) = Len(disk.docs)
            /\ get_chunk_stats(chunks') = get_chunk_stats(chunks) ]_vars

\* the fields of a forecast (WeatherResponse.model_dump())
ForecastFields ==
    {"date", "location", "temperature_high", "temperature_low", "condition",
     "humidity", "wind_speed", "recommendation", "simulated"}

\* C20: get_weather, on every date and location value and on the simulated and
\* the real service, never raises: it returns a forecast (simulated = true, one
\* of the five conditions, that condition's recommendation) or an error
\* payload {error: true, message}.
C20_GetWeatherIsTotal ==
    (w_pc = "done" /\ w_out.op = "get_weather") =>
        /\ w_out.out.raised = "none"
        /\ LET payload == w_out.out.value
           IN  \/ /\ DOMAIN payload = ForecastFields
                  /\ payload.simulated = TRUE
                  /\ payload.condition
                        \in {"Soleado", "Parcialmente nublado", "Nublado",
                             "Lluvia ligera", "Ventoso"}
                  /\ payload.recommendation = RECOMMENDATIONS[payload.condition]
               \/ /\ DOMAIN payload = {"error", "message"}
                  /\ payload.error = TRUE

\* the real service was asked for a date in range and returned the service error
C20_Witness ==
    /\ w_pc = "done" /\ w_out.op = "get_weather"
    /\ ~w_simulated
    /\ w_out.out = Returned(ErrorPayload(ServiceErrorMessage))

\* the roles of a history of whole turns: user, assistant, user, assistant, ...
Alternates(h) ==
    /\ Len(h) % 2 = 0
    /\ \A i \in DOMAIN h :
          h[i].role = IF i % 2 = 1 THEN "user" ELSE "assistant"

\* C21: after any sequence of query and clear_history calls, succeeding or
\* failing, the stored history has even length and alternates user, assistant,
\* starting with a user message, and each question is followed by the answer
\* of its own turn: the history is the last messages of the turns answered
\* since the last clear_history.
C21_HistoryShape ==
    /\ Alternates(history)
    /\ EndsWith(TurnMessages(turns), history)

\* a query was answered and the trim dropped the oldest turn
C21_Witness ==
    /\ last.op = "query" /\ last.raised = "none"
    /\ history # <<>>
    /\ Len(history) < Len(last.before) + 2

\* C22 as stated: a chain created without a weather service registers no tool
\* schema, and every query on it makes exactly one model call, without tools,
\* executes no tool and, when it returns, returns tool_called = false.
C22_EveryQueryCallsModelOnce ==
    weather_service = "None" =>
        /\ tools = <<>>
        /\ last.op = "query" =>
              /\ last.executed = <<>>
              /\ Len(last.calls) = 1
              /\ \A i \in DOMAIN last.calls : last.calls[i].tools = <<>>
              /\ last.raised = "none" => last.result.tool_called = FALSE

\* C22 (amended): a chain created without a weather service registers no tool
\* schema, and every query on it executes no tool and makes exactly one model
\* call, without tools, unless the search raised "not initialized", in which
\* case it makes none; a query that returns has made one model call and
\* returns the text of that call with tool_called = false.
C22_NoToolsConfiguration ==
    weather_service = "None" =>
        /\ tools = <<>>
        /\ last.op = "query" =>
              /\ last.executed = <<>>
              /\ \A i \in DOMAIN last.calls : last.calls[i].tools = <<>>
              /\ Len(last.calls) = IF last.raised = NotInitializedError THEN 0 ELSE 1
              /\ last.raised = "none" =>
                    /\ last.result.tool_called = FALSE
                    /\ last.result.answer = last.input.response.content

\* a chain without a weather service answered a query on a history of its own
C22_Witness ==
    /\ weather_service = "None"
    /\ last.op = "query" /\ last.raised = "none"
    /\ last.before # <<>>

\* C23: in every forecast the simulator returns, for every month and every
\* draw of the random module, temperature_low < temperature_high, humidity is
\* in 50..75 and wind_speed is in 5..25.
C23_ForecastOrdering ==
    ForecastReturned =>
        LET forecast == w_out.out.value
        IN  /\ forecast.temperature_low < forecast.temperature_high
            /\ forecast.humidity \in 50..75
            /\ forecast.wind_speed \in 5..25

\* a winter forecast whose low is one degree under its high, with the highest
\* humidity and the lowest wind speed
C23_Witness ==
    /\ ForecastReturned
    /\ ForecastMonth \in {12, 1, 2}
    /\ w_out.out.value.temperature_high = w_out.out.value.temperature_low + 1
    /\ w_out.out.value.humidity = 75
    /\ w_out.out.value.wind_speed = 5

====
